---- MODULE Spec2Model ----
(***************************************************************************)
(* The "definitely" pattern dataflow engine DefinitelyPTFA and its two     *)
(* instantiations DefinitelyReachablePTFA (backward, seeded at Exit nodes) *)
(* and DefinitelyReachingPTFA (forward, seeded at Entry nodes), in the two *)
(* construction styles of the repository:                                  *)
(*   "main"  src/src/main.py  cfg bound at construction, predicate per     *)
(*           call, loop  with suppress(IndexError): while nid := pop()     *)
(*   "ptfa"  src/src/ptfa.py  predicate bound at construction, cfg per     *)
(*           call, loop  while self.worklist: nid = pop()                  *)
(* One behaviour is one engine instance that is constructed and then       *)
(* called up to MaxCalls times.  The steps of __call__ are the actions:    *)
(* the reset, each resumption of the pre_loop_init generator, each pop     *)
(* with its node check, and each turn of the for loop over next_nodes.     *)
(***************************************************************************)
EXTENDS Integers, Sequences, FiniteSets, TLC

\* The node identifiers a CFG may use.  Identifiers are Python ints; 0 is
\* among them because main.py tests the popped identifier for truth.
NodeIds == {0, 1, 2}

\* Bounds of the model.
MaxEdges == 2
MaxCalls == 2

\* Node categories: the two the engine inspects and one for every other.
Types == {"Entry", "Exit", "Stmt"}

\* What a call of the predicate on a node does: it returns a bool or raises.
\* IndexError is the error main.py suppresses around its loop; KeyError
\* stands for every other error.
Errors == {"IndexError", "KeyError"}
Outcomes == {"True", "False"} \cup Errors

Engines == {"main", "ptfa"}
Variants == {"Reachable", "Reaching"}

----------------------------------------------------------------------------
(* Helpers on finite sets and sequences *)

Min(S) == CHOOSE x \in S : \A y \in S : x <= y

RECURSIVE Ascending(_)
Ascending(S) == IF S = {} THEN << >>
                ELSE << Min(S) >> \o Ascending(S \ {Min(S)})

Reverse(q) == [i \in 1..Len(q) |-> q[Len(q) + 1 - i]]

Range(q) == {q[i] : i \in 1..Len(q)}

\* Every listing of the set S without repetition.
Orders(S) == {q \in [1..Cardinality(S) -> S] : Range(q) = S}

----------------------------------------------------------------------------
(* The control-flow graph, as the engine sees it through code_analysis.CFG *)

EdgeSets(S) == {E \in SUBSET (S \X S) : Cardinality(E) <= MaxEdges}

\* The listings of S a behaviour starts with: ascending and descending.
Listings(S) == {Ascending(S), Reverse(Ascending(S))}

\* Some node has two parents or two children: only then does the order of
\* an adjacency list matter.
Branching(E) ==
  \E a, b \in E : a # b /\ (a[1] = b[1] \/ a[2] = b[2])

\* node_ids: the list get_node_ids() returns; type: get_type; edges: the
\* pairs <<parent, child>>; desc: whether the adjacency lists come in
\* descending (else ascending) order of identifier.
CFGs ==
  UNION {
    { [node_ids |-> q, type |-> t, edges |-> E, desc |-> d] :
        q \in Listings(S), t \in [S -> Types], E \in EdgeSets(S), d \in BOOLEAN }
    : S \in (SUBSET NodeIds) \ {{}} }

WellFormed(cfg) == cfg.desc => Branching(cfg.edges)

get_node_ids(cfg) == cfg.node_ids

get_type(cfg, nid) == cfg.type[nid]

Listed(cfg, S) == IF cfg.desc THEN Reverse(Ascending(S)) ELSE Ascending(S)

get_any_parents(cfg, nid) ==
  Listed(cfg, {p \in Range(cfg.node_ids) : << p, nid >> \in cfg.edges})

get_any_children(cfg, nid) ==
  Listed(cfg, {c \in Range(cfg.node_ids) : << nid, c >> \in cfg.edges})

\* The predicates: one outcome per node identifier.  A predicate that
\* raises does so at one node and answers False at the others.
Predicates ==
  {p \in [NodeIds -> Outcomes] :
     \/ \A n \in NodeIds : p[n] \notin Errors
     \/ \E a \in NodeIds :
          p[a] \in Errors /\ \A n \in NodeIds \ {a} : p[n] = "False"}

----------------------------------------------------------------------------
(* The extension points of the two analyses.  s is the instance (Python's   *)
(* self): cfg, check_pattern, visited, worklist, in_dict, out_dict.         *)
(* check_pattern is an attribute in ptfa.py and the parameter that __call__ *)
(* hands to check_node in main.py.                                          *)

\* Python's  a or f() : f is called only when a is false.
Reachable_calls_pattern(s, nid) == ~s.out_dict[nid]
Reaching_calls_pattern(s, nid) == ~s.in_dict[nid]

\* Mutant of Reachable_can_propagate: compares with # where the code has <.
Reachable_can_propagate_ne(s, nid, next_nid) ==
  s.in_dict[nid] # s.out_dict[next_nid]

\* Mutant of Reachable_seed: the out fact of the seed is not forced False.
Reachable_seed_unforced(s, exit_nid) ==
  [s EXCEPT !.visited = @ \cup {exit_nid},
            !.worklist = Append(@, exit_nid)]

Reachable_check_node(s, nid) ==
  [s EXCEPT !.in_dict[nid] = s.out_dict[nid] \/ s.check_pattern[nid] = "True"]

\* Mutant of Reachable_next_nodes: the flow goes to the children.
Reachable_next_nodes_children(s, nid) == get_any_children(s.cfg, nid)

Reachable_next_nodes(s, nid) == get_any_parents(s.cfg, nid)

\* Mutant of Reachable_can_propagate: the fact of the neighbour is not
\* looked at.
Reachable_can_propagate_near(s, nid, next_nid) == ~s.in_dict[nid]

\* bool < bool in Python: False < True only.
Reachable_can_propagate(s, nid, next_nid) ==
  ~s.in_dict[nid] /\ s.out_dict[next_nid]

Reachable_propagate(s, nid, next_nid) ==
  [s EXCEPT !.out_dict[next_nid] = s.in_dict[nid]]

Reachable_seed(s, exit_nid) ==
  [s EXCEPT !.out_dict[exit_nid] = FALSE,
            !.visited = @ \cup {exit_nid},
            !.worklist = Append(@, exit_nid)]

\* Mutant of Reaching_check_node: the two operands joined by and.
Reaching_check_node_and(s, nid) ==
  [s EXCEPT !.out_dict[nid] = s.in_dict[nid] /\ s.check_pattern[nid] = "True"]

Reaching_check_node(s, nid) ==
  [s EXCEPT !.out_dict[nid] = s.in_dict[nid] \/ s.check_pattern[nid] = "True"]

\* Mutant of Reaching_next_nodes: the flow goes to the parents.
Reaching_next_nodes_parents(s, nid) == get_any_parents(s.cfg, nid)

Reaching_next_nodes(s, nid) == get_any_children(s.cfg, nid)

Reaching_can_propagate(s, nid, next_nid) ==
  ~s.out_dict[nid] /\ s.in_dict[next_nid]

Reaching_propagate(s, nid, next_nid) ==
  [s EXCEPT !.in_dict[next_nid] = s.out_dict[nid]]

Reaching_seed(s, entry_nid) ==
  [s EXCEPT !.in_dict[entry_nid] = FALSE,
            !.visited = @ \cup {entry_nid},
            !.worklist = Append(@, entry_nid)]

\* Mutant of SeedType: the two boundary categories swapped.
SeedType_swapped(v) == IF v = "Reachable" THEN "Entry" ELSE "Exit"

\* Dispatch on the class of the instance.
SeedType(v) == IF v = "Reachable" THEN "Exit" ELSE "Entry"

calls_pattern(v, s, nid) ==
  IF v = "Reachable" THEN Reachable_calls_pattern(s, nid)
  ELSE Reaching_calls_pattern(s, nid)

check_node(v, s, nid) ==
  IF v = "Reachable" THEN Reachable_check_node(s, nid)
  ELSE Reaching_check_node(s, nid)

next_nodes(v, s, nid) ==
  IF v = "Reachable" THEN Reachable_next_nodes(s, nid)
  ELSE Reaching_next_nodes(s, nid)

can_propagate(v, s, nid, next_nid) ==
  IF v = "Reachable" THEN Reachable_can_propagate(s, nid, next_nid)
  ELSE Reaching_can_propagate(s, nid, next_nid)

propagate(v, s, nid, next_nid) ==
  IF v = "Reachable" THEN Reachable_propagate(s, nid, next_nid)
  ELSE Reaching_propagate(s, nid, next_nid)

seed(v, s, nid) ==
  IF v = "Reachable" THEN Reachable_seed(s, nid) ELSE Reaching_seed(s, nid)

\* get_exit_node / get_entry_node resumed after position gen of node_ids:
\* the positions of the seeds still to come.
SeedsAfter(v, s, gen) ==
  {k \in (gen + 1)..Len(get_node_ids(s.cfg)) :
     get_type(s.cfg, get_node_ids(s.cfg)[k]) = SeedType(v)}

----------------------------------------------------------------------------
(* The steps of DefinitelyPTFA.__call__, as functions of the machine state  *)
(* m = [self, frame]: self is the instance, frame the position in __call__: *)
(*   pc   "idle"     constructed, not called yet                            *)
(*        "gen"      at  for _ in self.pre_loop_init()  (generator resumes) *)
(*        "while"    at the head of the while loop                          *)
(*        "for"      in  for next_nid in self.next_nodes(nid), at turn j    *)
(*        "returned" __call__ returned (self.in_dict, self.out_dict)        *)
(*        "raised"   an exception left __call__                             *)
(*   gen  position in node_ids the seed generator has reached               *)
(*   nid, j  the popped node and the turn of the for loop                   *)

NoNode == Min(NodeIds) - 1

Keys(cfg) == Range(get_node_ids(cfg))

\* Mutant of Reset: the comprehensions skip the falsy key.
Reset_truthy_keys(s, cfg, check_pattern) ==
  [cfg |-> cfg, check_pattern |-> check_pattern,
   visited |-> {}, worklist |-> << >>,
   in_dict |-> [k \in Keys(cfg) \ {0} |-> TRUE],
   out_dict |-> [k \in Keys(cfg) \ {0} |-> TRUE]]

\* Mutant of Reset: the mappings of the earlier call are kept when they have
\* the keys of the cfg.
Reset_keeps_facts(s, cfg, check_pattern) ==
  [cfg |-> cfg, check_pattern |-> check_pattern,
   visited |-> {}, worklist |-> << >>,
   in_dict |-> IF DOMAIN s.in_dict = Keys(cfg) THEN s.in_dict
               ELSE [k \in Keys(cfg) |-> TRUE],
   out_dict |-> IF DOMAIN s.out_dict = Keys(cfg) THEN s.out_dict
                ELSE [k \in Keys(cfg) |-> TRUE]]

\* ptfa.py 41-48, main.py 42-47: bind the argument, clear the structures.
Reset(s, cfg, check_pattern) ==
  [cfg |-> cfg, check_pattern |-> check_pattern,
   visited |-> {}, worklist |-> << >>,
   in_dict |-> [k \in Keys(cfg) |-> TRUE],
   out_dict |-> [k \in Keys(cfg) |-> TRUE]]

AtHead(f, pc) == [f EXCEPT !.pc = pc, !.nid = NoNode, !.j = 0]

call(m, cfg, check_pattern) ==
  [self |-> Reset(m.self, cfg, check_pattern),
   frame |-> [pc |-> "gen", gen |-> 0, nid |-> NoNode, j |-> 0]]

\* The generator yields: the next seed is initialised and the loop entered.
HasSeed(v, m) == SeedsAfter(v, m.self, m.frame.gen) # {}

\* Mutant of resume_seed: the generator jumps to the last seed.
resume_seed_last(v, m) ==
  LET k == CHOOSE x \in SeedsAfter(v, m.self, m.frame.gen) :
             \A y \in SeedsAfter(v, m.self, m.frame.gen) : y <= x
  IN  [self |-> seed(v, m.self, get_node_ids(m.self.cfg)[k]),
       frame |-> [AtHead(m.frame, "while") EXCEPT !.gen = k]]

resume_seed(v, m) ==
  LET k == Min(SeedsAfter(v, m.self, m.frame.gen))
  IN  [self |-> seed(v, m.self, get_node_ids(m.self.cfg)[k]),
       frame |-> [AtHead(m.frame, "while") EXCEPT !.gen = k]]

\* The generator is exhausted: __call__ returns.
exhausted(m) == [m EXCEPT !.frame = AtHead(@, "returned")]

Top(s) == s.worklist[Len(s.worklist)]

\* Mutant of Pop: the last element is read and left on the list.
Pop_peek(s) == s

Pop(s) == [s EXCEPT !.worklist = SubSeq(@, 1, Len(@) - 1)]

\* ptfa.py 51: while self.worklist.   main.py 50-51: pop() of the empty list
\* raises IndexError, which suppress() swallows.  Either way the while loop
\* is left and the generator resumed.
IsEmpty(m) == m.self.worklist = << >>

loop_exit(m) == [m EXCEPT !.frame = AtHead(@, "gen")]

\* main.py 51: while nid := self.worklist.pop()  ends on a falsy nid, the
\* identifier 0, which has been popped.
PopsFalsy(e, m) == e = "main" /\ ~IsEmpty(m) /\ Top(m.self) = 0

pop_falsy(m) == [self |-> Pop(m.self), frame |-> AtHead(m.frame, "gen")]

\* The body of the while loop is entered with nid popped.
EntersBody(e, m) == ~IsEmpty(m) /\ ~PopsFalsy(e, m)

\* check_node calls the predicate and the predicate raises.
PatternRaises(v, m) ==
  /\ calls_pattern(v, m.self, Top(m.self))
  /\ m.self.check_pattern[Top(m.self)] \in Errors

\* main.py 50: the IndexError of the predicate is swallowed by suppress()
\* like the one of pop(); the while loop is left.
Suppressed(e, v, m) ==
  e = "main" /\ m.self.check_pattern[Top(m.self)] = "IndexError"

suppress(m) == [self |-> Pop(m.self), frame |-> AtHead(m.frame, "gen")]

raise(m) == [self |-> Pop(m.self), frame |-> AtHead(m.frame, "raised")]

\* The position after turn j - 1 of the for loop over next_nodes(nid).
Turn(v, s, f, nid, j) ==
  IF j <= Len(next_nodes(v, s, nid))
  THEN [f EXCEPT !.pc = "for", !.nid = nid, !.j = j]
  ELSE AtHead(f, "while")

pop_check(v, m) ==
  LET nid == Top(m.self)
      s == check_node(v, Pop(m.self), nid)
  IN  [self |-> s, frame |-> Turn(v, s, m.frame, nid, 1)]

\* ptfa.py 55-61, main.py 54-60.
MustPropagate(v, s, nid, next_nid) ==
  can_propagate(v, s, nid, next_nid) \/ next_nid \notin s.visited

\* Mutant of for_turn: the pushed neighbour is not added to visited.
for_turn_unmarked(v, m) ==
  LET nid == m.frame.nid
      next_nid == next_nodes(v, m.self, nid)[m.frame.j]
      s == IF MustPropagate(v, m.self, nid, next_nid)
           THEN [propagate(v, m.self, nid, next_nid) EXCEPT
                   !.worklist = Append(@, next_nid)]
           ELSE m.self
  IN  [self |-> s, frame |-> Turn(v, s, m.frame, nid, m.frame.j + 1)]

for_turn(v, m) ==
  LET nid == m.frame.nid
      next_nid == next_nodes(v, m.self, nid)[m.frame.j]
      s == IF MustPropagate(v, m.self, nid, next_nid)
           THEN [propagate(v, m.self, nid, next_nid) EXCEPT
                   !.worklist = Append(@, next_nid),
                   !.visited = @ \cup {next_nid}]
           ELSE m.self
  IN  [self |-> s, frame |-> Turn(v, s, m.frame, nid, m.frame.j + 1)]

Finished(m) == m.frame.pc \in {"returned", "raised"}

\* One step of a running __call__.
Step(e, v, m) ==
  CASE m.frame.pc = "gen" /\ HasSeed(v, m) -> resume_seed(v, m)
    [] m.frame.pc = "gen" /\ ~HasSeed(v, m) -> exhausted(m)
    [] m.frame.pc = "while" /\ IsEmpty(m) -> loop_exit(m)
    [] m.frame.pc = "while" /\ PopsFalsy(e, m) -> pop_falsy(m)
    [] m.frame.pc = "while" /\ EntersBody(e, m) /\ PatternRaises(v, m)
         /\ Suppressed(e, v, m) -> suppress(m)
    [] m.frame.pc = "while" /\ EntersBody(e, m) /\ PatternRaises(v, m)
         /\ ~Suppressed(e, v, m) -> raise(m)
    [] m.frame.pc = "while" /\ EntersBody(e, m) /\ ~PatternRaises(v, m)
         -> pop_check(v, m)
    [] m.frame.pc = "for" -> for_turn(v, m)

\* A whole __call__ from m on.
RECURSIVE Run(_, _, _)
Run(e, v, m) == IF Finished(m) THEN m ELSE Run(e, v, Step(e, v, m))

\* The instance as its constructor leaves it.
Constructed(cfg, check_pattern) ==
  [self |-> [cfg |-> cfg, check_pattern |-> check_pattern,
             visited |-> {}, worklist |-> << >>,
             in_dict |-> << >>, out_dict |-> << >>],
   frame |-> [pc |-> "idle", gen |-> 0, nid |-> NoNode, j |-> 0]]

\* What a call on a newly constructed instance ends in.
Fresh(e, v, cfg, check_pattern) ==
  Run(e, v, call(Constructed(cfg, check_pattern), cfg, check_pattern))

----------------------------------------------------------------------------
(* The state machine *)

VARIABLES
  engine,    \* "main" or "ptfa": which file's DefinitelyPTFA the instance is
  variant,   \* "Reachable" or "Reaching": the concrete class
  self,      \* the instance
  frame,     \* the position in __call__
  budget,    \* how many more times the caller calls the instance
  called,    \* the nodes the predicate was invoked on in the current call
  steps,     \* the steps the current call has taken
  returned,  \* what each completed call was given and returned
  checks,    \* per node, the node checks the current call has completed
  pushes     \* per node, the appends to the worklist in the current call:
             \* seed by pre_loop_init, guard by the for loop with
             \* can_propagate true, free by the for loop with it false

vars ==
  << engine, variant, self, frame, budget, called, steps, returned,
     checks, pushes >>

hist == << checks, pushes >>

NoChecks == [n \in NodeIds |-> 0]

NoPushes == [n \in NodeIds |-> [seed |-> 0, guard |-> 0, free |-> 0]]

M == [self |-> self, frame |-> frame]

Becomes(m) == self' = m.self /\ frame' = m.frame

\* The predicate with its boolean answers negated.
Negated(p) ==
  [n \in DOMAIN p |-> IF p[n] = "True" THEN "False"
                      ELSE IF p[n] = "False" THEN "True" ELSE p[n]]

WithoutEdges(cfg) == [cfg EXCEPT !.edges = {}]

\* The arguments of a call.  The first call uses the cfg and the predicate
\* the behaviour starts with.  A later call of a main.py instance may bring
\* another predicate, a later call of a ptfa.py instance another cfg.
CallCfgs ==
  IF engine = "ptfa" /\ frame.pc # "idle"
  THEN {self.cfg, WithoutEdges(self.cfg)} ELSE {self.cfg}

CallPatterns ==
  IF engine = "main" /\ frame.pc # "idle"
  THEN {self.check_pattern, Negated(self.check_pattern)}
  ELSE {self.check_pattern}

\* An instance constructed over one of the cfgs in C, that will be called
\* n times.
Start(C, n) ==
  /\ engine \in Engines
  /\ variant \in Variants
  /\ \E cfg \in C, p \in Predicates :
       /\ WellFormed(cfg)
       /\ self = Constructed(cfg, p).self
       /\ frame = Constructed(cfg, p).frame
  /\ budget = n
  /\ called = {}
  /\ steps = 0
  /\ returned = << >>
  /\ checks = NoChecks
  /\ pushes = NoPushes

Init == Start(CFGs, 1)

Call ==
  /\ frame.pc \in {"idle", "returned", "raised"}
  /\ budget > 0
  /\ \E cfg \in CallCfgs, p \in CallPatterns : Becomes(call(M, cfg, p))
  /\ budget' = budget - 1
  /\ called' = {}
  /\ steps' = 0
  /\ checks' = NoChecks
  /\ pushes' = NoPushes
  /\ UNCHANGED << engine, variant, returned >>

Seed ==
  /\ frame.pc = "gen"
  /\ HasSeed(variant, M)
  /\ Becomes(resume_seed(variant, M))
  /\ steps' = steps + 1
  /\ pushes' = [pushes EXCEPT ![Top(self')].seed = @ + 1]
  /\ UNCHANGED << engine, variant, budget, called, returned, checks >>

Return ==
  /\ frame.pc = "gen"
  /\ ~HasSeed(variant, M)
  /\ Becomes(exhausted(M))
  /\ returned' = Append(returned,
                        [cfg |-> self.cfg, check_pattern |-> self.check_pattern,
                         in_dict |-> self.in_dict, out_dict |-> self.out_dict])
  /\ steps' = steps + 1
  /\ UNCHANGED << engine, variant, budget, called, hist >>

LoopExit ==
  /\ frame.pc = "while"
  /\ IsEmpty(M)
  /\ Becomes(loop_exit(M))
  /\ steps' = steps + 1
  /\ UNCHANGED << engine, variant, budget, called, returned, hist >>

PopFalsy ==
  /\ frame.pc = "while"
  /\ PopsFalsy(engine, M)
  /\ Becomes(pop_falsy(M))
  /\ steps' = steps + 1
  /\ UNCHANGED << engine, variant, budget, called, returned, hist >>

PopCheck ==
  /\ frame.pc = "while"
  /\ EntersBody(engine, M)
  /\ ~PatternRaises(variant, M)
  /\ Becomes(pop_check(variant, M))
  /\ called' = IF calls_pattern(variant, self, Top(self))
               THEN called \cup {Top(self)} ELSE called
  /\ steps' = steps + 1
  /\ checks' = [checks EXCEPT ![Top(self)] = @ + 1]
  /\ UNCHANGED << engine, variant, budget, returned, pushes >>

Suppress ==
  /\ frame.pc = "while"
  /\ EntersBody(engine, M)
  /\ PatternRaises(variant, M)
  /\ Suppressed(engine, variant, M)
  /\ Becomes(suppress(M))
  /\ called' = called \cup {Top(self)}
  /\ steps' = steps + 1
  /\ UNCHANGED << engine, variant, budget, returned, hist >>

Raise ==
  /\ frame.pc = "while"
  /\ EntersBody(engine, M)
  /\ PatternRaises(variant, M)
  /\ ~Suppressed(engine, variant, M)
  /\ Becomes(raise(M))
  /\ called' = called \cup {Top(self)}
  /\ steps' = steps + 1
  /\ UNCHANGED << engine, variant, budget, returned, hist >>

ForTurn ==
  /\ frame.pc = "for"
  /\ Becomes(for_turn(variant, M))
  /\ steps' = steps + 1
  /\ LET next_nid == next_nodes(variant, self, frame.nid)[frame.j]
     IN  pushes' =
           IF can_propagate(variant, self, frame.nid, next_nid)
           THEN [pushes EXCEPT ![next_nid].guard = @ + 1]
           ELSE IF next_nid \notin self.visited
           THEN [pushes EXCEPT ![next_nid].free = @ + 1]
           ELSE pushes
  /\ UNCHANGED << engine, variant, budget, called, returned, checks >>

Next ==
  \/ Call
  \/ Seed
  \/ Return
  \/ LoopExit
  \/ PopFalsy
  \/ PopCheck
  \/ Suppress
  \/ Raise
  \/ ForTurn

Spec == Init /\ [][Next]_vars

\* The same instance called MaxCalls times.  These behaviours are several
\* runs long; they start from the smaller cfgs, those that leave a node
\* identifier unused or have fewer than MaxEdges edges, listed in ascending
\* order (the listing is the same in every call).
ReuseCFGs ==
  {cfg \in CFGs :
     /\ cfg.node_ids = Ascending(Keys(cfg))
     /\ Keys(cfg) # NodeIds \/ Cardinality(cfg.edges) < MaxEdges}

InitReuse == Start(ReuseCFGs, MaxCalls)

SpecReuse == InitReuse /\ [][Next]_vars

----------------------------------------------------------------------------
(* Vocabulary of the properties *)

Ids == Range(self.cfg.node_ids)

Pattern(n) == self.check_pattern[n] = "True"

\* The predicate is total: it raises at no node of the cfg.
Total == \A n \in Ids : self.check_pattern[n] \notin Errors

Running == frame.pc \in {"gen", "while", "for"}

Returned == frame.pc = "returned"

\* The Exit nodes for Definitely-Reachable, the Entry nodes for
\* Definitely-Reaching.
Seeds ==
  {n \in Ids :
     self.cfg.type[n] = IF variant = "Reachable" THEN "Exit" ELSE "Entry"}

\* The fact a node check writes, and the fact propagation writes.
Near == IF variant = "Reachable" THEN self.in_dict ELSE self.out_dict
Far == IF variant = "Reachable" THEN self.out_dict ELSE self.in_dict

\* The pairs <<n, x>> with x a neighbour of n in the direction of flow.
Flow ==
  IF variant = "Reachable" THEN {<< e[2], e[1] >> : e \in self.cfg.edges}
  ELSE self.cfg.edges

----------------------------------------------------------------------------
(* C1  Fixpoint *)

\* The returned mappings are left unchanged by the node check of every node
\* and by the propagation rule along every edge in the flow direction.
IsFixpoint ==
  /\ \A n \in Ids : Near[n] = (Far[n] \/ Pattern(n))
  /\ \A e \in Flow : ~(Near[e[1]] = FALSE /\ Far[e[2]] = TRUE)

\* C1: when run returns, for a total predicate, in[n] = out[n] OR P(n) for
\* every node and no edge p -> n has in[n] = False and out[p] = True
\* (Definitely-Reachable; dually for Definitely-Reaching).
C1_Fixpoint == (Returned /\ Total) => IsFixpoint

\* The same for the instances of ptfa.py alone.
C1_FixpointPtfa == (Returned /\ Total /\ engine = "ptfa") => IsFixpoint

----------------------------------------------------------------------------
(* C2  Termination *)

\* The steps a call can take: one resumption of the generator per seed and
\* the last one that returns, one exit of the while loop per seed, one pop
\* per push (a seed push per seed, two propagation pushes per node), and the
\* turns of the for loop of each pop (each node is popped three times at the
\* most).
WorkBound ==
  LET S == Cardinality(Seeds)
      N == Cardinality(Ids)
      E == Cardinality(self.cfg.edges)
  IN  (S + 1) + S + (S + N + N) + (E + E + E)

\* A step of __call__ can be taken.
CanStep ==
  \/ frame.pc = "gen"
  \/ frame.pc = "while" /\ (IsEmpty(M) \/ PopsFalsy(engine, M)
                              \/ EntersBody(engine, M))
  \/ frame.pc = "for" /\ frame.j \in 1..Len(next_nodes(variant, self, frame.nid))

\* C2: a call with a total predicate never raises, never gets stuck and
\* returns within WorkBound steps, cyclic cfg or not.
C2_Termination ==
  Total =>
    /\ frame.pc # "raised"
    /\ Running => (CanStep /\ steps < WorkBound)
    /\ Returned => steps <= WorkBound

\* A run has returned after visiting the two nodes of a cycle of the cfg.
C2_Witness ==
  /\ Returned
  /\ \E a, b \in self.visited :
       /\ a # b
       /\ {<< a, b >>, << b, a >>} \subseteq self.cfg.edges

----------------------------------------------------------------------------
(* C3  Definitely-Reachable computes the path property *)

\* The nodes of C from which R is reached along edges through C only.
RECURSIVE Backward(_, _, _)
Backward(cfg, C, R) ==
  LET R2 == R \cup {x \in C : \E y \in R : << x, y >> \in cfg.edges}
  IN  IF R2 = R THEN R ELSE Backward(cfg, C, R2)

\* The nodes with a path to an Exit node on which the predicate holds
\* nowhere, the node itself and the Exit included.
PatternFreeToExit ==
  LET C == {n \in Ids : ~Pattern(n)}
  IN  Backward(self.cfg, C, {n \in C : get_type(self.cfg, n) = "Exit"})

\* An Entry node, a node A and an Exit node with the edges Entry -> A -> Exit
\* and no other, the predicate true only at A.
IsChain(entry, a, exit) ==
  /\ Ids = {entry, a, exit}
  /\ get_type(self.cfg, entry) = "Entry"
  /\ get_type(self.cfg, exit) = "Exit"
  /\ get_type(self.cfg, a) = "Stmt"
  /\ self.cfg.edges = {<< entry, a >>, << a, exit >>}
  /\ \A n \in Ids : Pattern(n) <=> n = a

\* C3: after a Definitely-Reachable run with a total predicate, in[n] is
\* False exactly when some path from n to an Exit has the predicate false at
\* every node; on the chain Entry -> A -> Exit with the predicate true only
\* at A, out[A] = False, in[A] = True, out[Entry] = True, in[Entry] = True.
C3_ReachablePathProperty ==
  (Returned /\ Total /\ variant = "Reachable") =>
    /\ \A n \in Ids : self.in_dict[n] = (n \notin PatternFreeToExit)
    /\ \A entry, a, exit \in Ids :
         IsChain(entry, a, exit) =>
           /\ self.out_dict[a] = FALSE
           /\ self.in_dict[a] = TRUE
           /\ self.out_dict[entry] = TRUE
           /\ self.in_dict[entry] = TRUE

\* The same for the instances of ptfa.py alone.
C3_ReachablePathPropertyPtfa == engine = "ptfa" => C3_ReachablePathProperty

----------------------------------------------------------------------------
(* C4  Totality *)

\* C4: from the end of the initialisation to the return, the key sets of
\* in_dict and out_dict are exactly the node ids of the cfg.
C4_Totality ==
  (Running \/ Returned) =>
    /\ DOMAIN self.in_dict = Range(get_node_ids(self.cfg))
    /\ DOMAIN self.out_dict = Range(get_node_ids(self.cfg))

\* A run has returned on a cfg of several nodes after visiting one.
C4_Witness ==
  Returned /\ Cardinality(Ids) > 1 /\ self.visited # {}

----------------------------------------------------------------------------
(* C5  Monotone convergence *)

\* C5: no step of a run changes a fact from False to True.
C5_Monotone ==
  [][Running =>
       \A n \in Ids : /\ self'.in_dict[n] => self.in_dict[n]
                      /\ self'.out_dict[n] => self.out_dict[n]]_vars

\* A node was pushed by the not-visited branch with its far fact left True
\* while another fact has dropped to False.
C5_Witness ==
  /\ Running
  /\ \E n \in self.visited \ Seeds : Far[n] = TRUE
  /\ \E n \in Ids : Near[n] = FALSE

----------------------------------------------------------------------------
(* C6  Seed boundary *)

\* C6: after a run, the out fact of every Exit node (Definitely-Reachable),
\* the in fact of every Entry node (Definitely-Reaching), is False.
C6_SeedBoundary == Returned => \A e \in Seeds : Far[e] = FALSE

\* A run has returned and a seed is a neighbour, in the flow direction, of
\* a node that was visited.
C6_Witness ==
  /\ Returned
  /\ \E e \in Flow : e[2] \in Seeds /\ e[1] \in self.visited /\ e[1] # e[2]

----------------------------------------------------------------------------
(* C7  No seeds *)

\* C7: on a cfg without a node of the seed category a call raises nothing,
\* invokes the predicate on no node and returns in = out = True everywhere.
C7_NoSeeds ==
  (Seeds = {} /\ frame.pc # "idle") =>
    /\ frame.pc \in {"gen", "returned"}
    /\ called = {}
    /\ \A n \in Ids : self.in_dict[n] = TRUE /\ self.out_dict[n] = TRUE

\* A run has returned on a cfg that has edges and nodes of the other
\* boundary category but no seed.
C7_Witness ==
  /\ Returned
  /\ Seeds = {}
  /\ self.cfg.edges # {}
  /\ \E n \in Ids : get_type(self.cfg, n) \in {"Entry", "Exit"}

----------------------------------------------------------------------------
(* C8  Predicate failure *)

\* C8: once the predicate has raised at a node, whatever the error, the call
\* has ended with that error and returns no mappings.
C8_PredicateFailure ==
  (\E n \in called : self.check_pattern[n] \in Errors) => frame.pc = "raised"

----------------------------------------------------------------------------
(* C9  Idempotence and reset *)

SameInput(a, b) == a.cfg = b.cfg /\ a.check_pattern = b.check_pattern

SameMappings(a, b) == a.in_dict = b.in_dict /\ a.out_dict = b.out_dict

\* C9: every call of an instance returns what a call of a newly constructed
\* instance returns on the same cfg and predicate, whatever the earlier calls
\* left behind; two calls on the same cfg and predicate return equal mappings.
C9_Idempotence ==
  Returned =>
    /\ LET r == Fresh(engine, variant, self.cfg, self.check_pattern)
       IN  r.frame.pc = "returned" /\ SameMappings(r.self, self)
    /\ \A i, j \in 1..Len(returned) :
         SameInput(returned[i], returned[j])
           => SameMappings(returned[i], returned[j])

\* A second call has returned, on another input than the first, with True
\* a fact that the first call left False.
C9_Witness ==
  /\ Len(returned) >= 2
  /\ ~SameInput(returned[1], returned[2])
  /\ \E n \in Keys(returned[1].cfg) :
       \/ ~returned[1].in_dict[n] /\ returned[2].in_dict[n]
       \/ ~returned[1].out_dict[n] /\ returned[2].out_dict[n]

----------------------------------------------------------------------------
(* C10  Order independence *)

\* C10: the mappings a call returns, the predicate being total, are those it
\* returns for every other order in which node_ids lists the same nodes.
C10_OrderIndependence ==
  (Returned /\ Total) =>
    \A q \in Orders(Ids) :
      LET r == Fresh(engine, variant, [self.cfg EXCEPT !.node_ids = q],
                     self.check_pattern)
      IN  r.frame.pc = "returned" /\ SameMappings(r.self, self)

\* The same for the instances of ptfa.py alone.
C10_OrderIndependencePtfa == engine = "ptfa" => C10_OrderIndependence

----------------------------------------------------------------------------
(* C11  Mirror duality *)

\* The cfg with every edge reversed and the Entry and Exit categories
\* swapped; node_ids and the order of the adjacency lists are kept, so the
\* parents of a node are listed as its children were.
Reversed(cfg) ==
  [cfg EXCEPT
     !.edges = {<< e[2], e[1] >> : e \in cfg.edges},
     !.type = [n \in DOMAIN cfg.type |->
                 IF cfg.type[n] = "Entry" THEN "Exit"
                 ELSE IF cfg.type[n] = "Exit" THEN "Entry" ELSE cfg.type[n]]]

Mirror(v) == IF v = "Reachable" THEN "Reaching" ELSE "Reachable"

\* C11: a call always ends as the call of the other analysis on the
\* reversed cfg ends, with the same predicate and the two mappings swapped:
\* Reaching.in = Reachable'.out and Reaching.out = Reachable'.in.
C11_MirrorDuality ==
  [](Finished(M) =>
       LET r == Fresh(engine, Mirror(variant), Reversed(self.cfg),
                      self.check_pattern)
       IN  /\ r.frame.pc = frame.pc
           /\ r.self.out_dict = self.in_dict
           /\ r.self.in_dict = self.out_dict)

\* A Definitely-Reaching run has returned after carrying False along an edge
\* that has no reverse edge to a node that is not an Entry.
C11_Witness ==
  /\ Returned
  /\ variant = "Reaching"
  /\ \E e \in self.cfg.edges :
       /\ e[1] # e[2]
       /\ << e[2], e[1] >> \notin self.cfg.edges
       /\ self.cfg.type[e[2]] # "Entry"
       /\ self.in_dict[e[2]] = FALSE

----------------------------------------------------------------------------
(* C12  Predicate-satisfied node *)

\* The cfg is one node of category t without an edge, and the predicate
\* holds at that node.
SatisfiedSingle(t) ==
  /\ Cardinality(Ids) = 1
  /\ self.cfg.edges = {}
  /\ \A n \in Ids : self.cfg.type[n] = t /\ Pattern(n)

\* C12: on a single isolated Exit node with the predicate True there, a
\* Definitely-Reaching run seeds the node, so that its in fact is False, and
\* returns out = True for it.
C12_PredicateSatisfiedExit ==
  (Returned /\ variant = "Reaching" /\ SatisfiedSingle("Exit")) =>
    \A n \in Ids :
      /\ n \in self.visited
      /\ self.in_dict[n] = FALSE
      /\ self.out_dict[n] = TRUE

\* C12 amended: on a single isolated Entry node with the predicate True
\* there, a Definitely-Reaching call does not raise, seeds the node, so that
\* its in fact is False, and returns out = True for it.
C12_PredicateSatisfiedEntry ==
  (variant = "Reaching" /\ SatisfiedSingle("Entry")) =>
    /\ frame.pc # "raised"
    /\ Returned =>
         \A n \in Ids :
           /\ n \in self.visited
           /\ self.in_dict[n] = FALSE
           /\ self.out_dict[n] = TRUE

\* A Definitely-Reaching run has returned on a single Entry node at which
\* the predicate, invoked by the node check, holds.
C12_Witness ==
  /\ Returned
  /\ variant = "Reaching"
  /\ SatisfiedSingle("Entry")
  /\ called = Ids

----------------------------------------------------------------------------
(* C13  The two engines *)

\* What the step taken at m does to the worklist and the facts: the pops,
\* the node checks and the propagations, in order.
Event(e, v, m) ==
  IF m.frame.pc = "while" /\ PopsFalsy(e, m)
    THEN << [op |-> "pop", nid |-> Top(m.self), next_nid |-> NoNode] >>
  ELSE IF m.frame.pc = "while" /\ EntersBody(e, m)
    THEN << [op |-> "pop", nid |-> Top(m.self), next_nid |-> NoNode],
            [op |-> "check_node", nid |-> Top(m.self), next_nid |-> NoNode] >>
  ELSE IF m.frame.pc = "for"
          /\ MustPropagate(v, m.self, m.frame.nid,
                           next_nodes(v, m.self, m.frame.nid)[m.frame.j])
    THEN << [op |-> "propagate", nid |-> m.frame.nid,
             next_nid |-> next_nodes(v, m.self, m.frame.nid)[m.frame.j]] >>
  ELSE << >>

RECURSIVE Trace(_, _, _)
Trace(e, v, m) ==
  IF Finished(m) THEN << >> ELSE Event(e, v, m) \o Trace(e, v, Step(e, v, m))

Other(e) == IF e = "main" THEN "ptfa" ELSE "main"

\* C13: on every cfg and every predicate that answers at every node, the
\* loop of main.py and the loop of ptfa.py perform the same sequence of pops,
\* node checks and propagations and end alike, with the same (in, out)
\* mappings.
C13_EnginesIdentical ==
  (Finished(M) /\ Total) =>
    LET m0 == call(Constructed(self.cfg, self.check_pattern), self.cfg,
                   self.check_pattern)
        r == Run(Other(engine), variant, m0)
    IN  /\ Trace("main", variant, m0) = Trace("ptfa", variant, m0)
        /\ r.frame.pc = frame.pc
        /\ SameMappings(r.self, self)

----------------------------------------------------------------------------
(* C14  The loop stops only on the empty worklist *)

Pushed(n) == pushes[n].seed + pushes[n].guard + pushes[n].free

\* The while loop is left.
LeavesLoop == frame.pc = "while" /\ frame'.pc = "gen"

\* C14: with a predicate that answers at every node, the while loop is left
\* only on the empty worklist, and when the run returns the worklist is
\* empty and every push of a node id, whatever its value, has been followed
\* by a pop with its node check and its turns of the for loop.
C14_StopsOnlyWhenEmpty ==
  /\ [](Total => (Returned => /\ self.worklist = << >>
                               /\ \A n \in Ids : checks[n] = Pushed(n)))
  /\ [][(Total /\ LeavesLoop) => self.worklist = << >>]_vars

\* The same for the instances of ptfa.py alone.
C14_StopsOnlyWhenEmptyPtfa ==
  /\ [](engine = "ptfa" /\ Total =>
         (Returned => /\ self.worklist = << >>
                      /\ \A n \in Ids : checks[n] = Pushed(n)))
  /\ [][(engine = "ptfa" /\ Total /\ LeavesLoop) => self.worklist = << >>]_vars

----------------------------------------------------------------------------
(* C15  Seeding and the loop *)

\* The nodes pre_loop_init has initialised in the current call.
Seeded == {n \in Ids : pushes[n].seed > 0}

\* Forced to False, marked visited and pushed as a seed.
IsSeeded(n) == pushes[n].seed > 0 /\ n \in self.visited /\ Far[n] = FALSE

\* A node is popped from the worklist.
PopStep ==
  /\ frame.pc = "while"
  /\ self.worklist # << >>
  /\ Len(self'.worklist) = Len(self.worklist) - 1

\* C15: every seed node has had its boundary fact forced to False, been
\* marked visited and been pushed before any node is popped.
C15_SeedingPrecedesLoop ==
  [][PopStep => \A n \in Seeds : IsSeeded(n)]_vars

\* The seeds in the order of node_ids.
SeedList == SelectSeq(self.cfg.node_ids, LAMBDA n : n \in Seeds)

\* C15 amended: the seeds are produced one at a time in the order of
\* node_ids, each forced to False, marked visited and pushed once; the loop
\* runs only after a seed has been produced, so the first seed is seeded
\* before any pop, and every seed has been produced when the run returns.
C15_SeedingInterleaved ==
  []((Running \/ Returned) =>
       /\ \A i \in 1..Len(self.cfg.node_ids) :
            LET n == self.cfg.node_ids[i]
            IN  pushes[n].seed > 0 =>
                  /\ n \in Seeds
                  /\ IsSeeded(n)
                  /\ pushes[n].seed = 1
                  /\ \A j \in 1..(i - 1) :
                       self.cfg.node_ids[j] \in Seeds
                         => pushes[self.cfg.node_ids[j]].seed > 0
       /\ frame.pc \in {"while", "for"} => \E n \in Ids : pushes[n].seed > 0
       /\ Returned => \A n \in Seeds : pushes[n].seed > 0)

\* The loop has completed the node check of the first seed, which has a
\* flow neighbour, while the last seed has not been produced.
C15_Witness ==
  /\ Running
  /\ Len(SeedList) >= 2
  /\ checks[SeedList[1]] > 0
  /\ \E e \in Flow : e[1] = SeedList[1] /\ e[2] # e[1]
  /\ SeedList[Len(SeedList)] \notin Seeded

----------------------------------------------------------------------------
(* C16  Forced first visit *)

\* The nodes of R and those reached from them along the flow direction.
RECURSIVE FlowClosure(_)
FlowClosure(R) ==
  LET R2 == R \cup {e[2] : e \in {f \in Flow : f[1] \in R}}
  IN  IF R2 = R THEN R ELSE FlowClosure(R2)

\* The seeds and the nodes reachable from a seed along the flow direction.
Reached == FlowClosure(Seeds)

\* C16: when a run with a predicate that answers at every node returns,
\* every node that is a seed or reachable from a seed along the flow
\* direction has had its node check executed, and the predicate invoked on
\* it, at least once.
C16_ForcedFirstVisit ==
  (Returned /\ Total) =>
    \A n \in Reached : checks[n] >= 1 /\ n \in called

\* The node-check half for the instances of ptfa.py alone.
C16_NodeCheckedPtfa ==
  (Returned /\ Total /\ engine = "ptfa") => \A n \in Reached : checks[n] >= 1

\* The predicate half for the instances of ptfa.py alone.
C16_PredicateCalledPtfa ==
  (Returned /\ Total /\ engine = "ptfa") => \A n \in Reached : n \in called

\* What holds of ptfa.py: the predicate is invoked on a reached node exactly
\* when the node ends with its far fact False.
C16_PredicateCalledWhenFalsePtfa ==
  (Returned /\ Total /\ engine = "ptfa") =>
    \A n \in Ids : n \in called <=> (n \in Reached /\ Far[n] = FALSE)

----------------------------------------------------------------------------
(* C17  Visited set *)

\* The node ids appended to the worklist at least once in the current call.
PushedIds == {n \in NodeIds : Pushed(n) > 0}

\* C17: after every seeding step and every step of the loop, visited is
\* exactly the set of node ids pushed at least once in the current call and
\* holds every id on the worklist; no step of a call removes an id from
\* visited.
C17_VisitedSet ==
  /\ []((Running \/ Finished(M)) =>
          /\ self.visited = PushedIds
          /\ Range(self.worklist) \subseteq self.visited)
  /\ [][Running => self.visited \subseteq self'.visited]_vars

\* A node that is not a seed is on the worklist after its second push.
C17_Witness ==
  /\ Running
  /\ \E n \in Range(self.worklist) \ Seeds : Pushed(n) >= 2

----------------------------------------------------------------------------
(* C18  Bounded enqueues *)

\* C18: within one call, for each node the propagation guard succeeds with
\* the node as target at most once, the step that does so being the one
\* that takes its far fact from True to False, and the node is pushed at
\* most once with the guard false; the for loop pushes a node at most twice,
\* on cyclic cfgs too.
C18_BoundedEnqueues ==
  /\ [](\A n \in NodeIds :
          /\ pushes[n].guard <= 1
          /\ pushes[n].free <= 1
          /\ pushes[n].guard + pushes[n].free <= 2)
  /\ [][\A n \in NodeIds :
          (Running /\ pushes'[n].guard > pushes[n].guard)
            => (Far[n] = TRUE /\ Far'[n] = FALSE
                  /\ pushes'[n].free = pushes[n].free)]_vars

\* A node has been pushed once with the guard false and once with the
\* guard true.
C18_Witness ==
  \E n \in Ids : pushes[n].free = 1 /\ pushes[n].guard = 1

----------------------------------------------------------------------------
(* C19  Loop invariant *)

\* Between iterations: after the reset, after a seed, after a complete
\* iteration of the while loop, after the return.
BetweenIterations == frame.pc \in {"gen", "while", "returned"}

\* Every visited node that is not on the worklist has the near fact its
\* node check would write.
Settled ==
  \A n \in self.visited \ Range(self.worklist) :
    Near[n] = (Far[n] \/ Pattern(n))

\* C19: with a predicate that answers at every node, after seeding and
\* after every complete loop iteration every node that is in visited and not
\* on the worklist has in[n] = out[n] OR P(n) (Definitely-Reachable),
\* out[n] = in[n] OR P(n) (Definitely-Reaching).
C19_LoopInvariant == (Total /\ BetweenIterations) => Settled

\* The same for the instances of ptfa.py alone.
C19_LoopInvariantPtfa ==
  (engine = "ptfa" /\ Total /\ BetweenIterations) => Settled

----------------------------------------------------------------------------
(* C20  Unreached nodes *)

\* C20: from the reset on, a node that is neither a seed nor reachable from
\* a seed along the flow direction is never in visited, never pushed,
\* checked or passed to the predicate, and has in = out = True, at the
\* return in particular.
C20_UnreachedNodes ==
  []((Running \/ Finished(M)) =>
       \A n \in Ids \ Reached :
         /\ n \notin self.visited
         /\ Pushed(n) = 0
         /\ checks[n] = 0
         /\ n \notin called
         /\ self.in_dict[n] = TRUE
         /\ self.out_dict[n] = TRUE)

\* A run has returned with every reached node checked, one of them a flow
\* neighbour of an unreached node against the direction of flow.
C20_Witness ==
  /\ Returned
  /\ \A n \in Reached : checks[n] > 0
  /\ \E e \in Flow : e[1] \notin Reached /\ e[2] \in Reached \ Seeds

====
